---- MODULE Spec2Model ----
(***************************************************************************)
(* Model of fastzip's Extractor (extractor.go): Extract, createDirectory,  *)
(* createSymlink, createFile, updateFileMetadata, together with the file   *)
(* system, the errgroup and the limiter channel they act on.               *)
(*                                                                         *)
(* Strings are sequences of one-character strings, so that                 *)
(* strings.HasPrefix and filepath.Join/Abs are computed character by       *)
(* character.  A location of the file system is a sequence of path         *)
(* components.                                                             *)
(***************************************************************************)
EXTENDS Integers, Sequences, FiniteSets, Bags, TLC

\* ------------------------------------------------------------------ bounds
\* Longest archive (number of entries of e.zr.File) that is explored.
MaxEntries == 3
\* Largest configured e.options.concurrency that is explored, next to 1.
MaxConcurrency == 2

\* ----------------------------------------------------------------- strings
Front(s) == SubSeq(s, 1, Len(s) - 1)

Last(s) == s[Len(s)]

\* strings.HasPrefix(s, prefix)
HasPrefix(s, prefix) ==
    /\ Len(s) >= Len(prefix)
    /\ SubSeq(s, 1, Len(prefix)) = prefix

\* One more character c in front of the segments rest of the remaining string.
SplitCons(c, rest) ==
    IF c = "/"
    THEN << <<>> >> \o rest
    ELSE << <<c>> \o Head(rest) >> \o Tail(rest)

\* The segments of a string between its separators ("a//b" has an empty one).
RECURSIVE Split(_)
Split(s) == IF s = <<>> THEN << <<>> >> ELSE SplitCons(Head(s), Split(Tail(s)))

\* filepath.Clean, one segment h after the components acc: an empty or "."
\* segment is dropped, ".." removes the component before it (and stays at
\* the root).
CleanStep(acc, h) ==
    IF h = <<>> \/ h = <<".">> THEN acc
    ELSE IF h = <<".", ".">> THEN (IF acc = <<>> THEN acc ELSE Front(acc))
    ELSE Append(acc, h)

RECURSIVE CleanSegs(_, _)
CleanSegs(segs, acc) ==
    IF segs = <<>> THEN acc ELSE CleanSegs(Tail(segs), CleanStep(acc, Head(segs)))

\* The components of a rooted path string.
Comps(s) == CleanSegs(Split(s), <<>>)

\* The string of a sequence of components: "/" for the root, else "/a/b".
RECURSIVE PathStr(_)
PathStr(p) ==
    IF p = <<>> THEN <<"/">>
    ELSE IF Len(p) = 1 THEN <<"/">> \o p[1]
    ELSE PathStr(Front(p)) \o <<"/">> \o Last(p)

\* filepath.Clean (rooted paths only: chroot is absolute)
Clean(s) == PathStr(Comps(s))

\* filepath.Join(a, b): the non-empty elements joined by the separator, cleaned.
Join(a, b) == Clean(IF b = <<>> THEN a ELSE a \o <<"/">> \o b)

\* filepath.Abs of a path that is already absolute: Clean.
Abs(s) == Clean(s)

\* ------------------------------------------------------------- file system
\* A node is [kind, perm, mtime, owner, data]; fs maps the locations that
\* exist to their nodes; the root "/" (the empty location) always exists.
\* A path is given by its components.
Bad == << <<>> >>

Now == "now"

Self == "self"

FullPerm == {"r", "w", "x"}

IsDirAt(f, loc) == loc = <<>> \/ (loc \in DOMAIN f /\ f[loc].kind = "dir")

Exists(f, loc) == loc = <<>> \/ loc \in DOMAIN f

Writable(f, loc) == loc = <<>> \/ "w" \in f[loc].perm

\* The location a path names, every symbolic link on the way followed
\* (the last component too); Bad when a parent is missing or no directory,
\* or after too many links.
RECURSIVE Real(_, _, _)
RealLink(f, loc, fuel) ==
    IF loc \in DOMAIN f /\ f[loc].kind = "symlink"
    THEN IF fuel = 0 THEN Bad ELSE Real(f, f[loc].data, fuel - 1)
    ELSE loc

RealIn(f, par, name, fuel) ==
    IF par = Bad \/ ~IsDirAt(f, par) THEN Bad ELSE RealLink(f, Append(par, name), fuel)

Real(f, p, fuel) ==
    IF p = <<>> THEN <<>> ELSE RealIn(f, Real(f, Front(p), fuel), Last(p), fuel)

Stat(f, p) == Real(f, p, Len(p))

\* The same, the last component not followed (lstat, unlink, mkdir, symlink).
LRealIn(f, par, name) ==
    IF par = Bad \/ ~IsDirAt(f, par) THEN Bad ELSE Append(par, name)

LReal(f, p) == IF p = <<>> THEN <<>> ELSE LRealIn(f, Stat(f, Front(p)), Last(p))

Touch(f, loc) == IF loc = <<>> THEN f ELSE [f EXCEPT ![loc].mtime = Now]

\* A new node at loc; its parent directory's modification time changes.
AddNode(f, loc, node) ==
    Touch([x \in DOMAIN f \cup {loc} |-> IF x = loc THEN node ELSE f[x]], Front(loc))

\* The node at loc removed; its parent directory's modification time changes.
DelNode(f, loc) == Touch([x \in DOMAIN f \ {loc} |-> f[x]], Front(loc))

Children(f, loc) == {x \in DOMAIN f : Len(x) = Len(loc) + 1 /\ Front(x) = loc}

NewNode(kind, perm, data) ==
    [kind |-> kind, perm |-> perm, mtime |-> Now, owner |-> Self, data |-> data]

\* The result of a file-system call: the new file system, the errno ("nil"
\* for success) and the locations it created, removed or wrote.
Res(f, e, at) == [fs |-> f, err |-> e, at |-> at]

\* os.Mkdir(path, perm)
MkdirAt(f, loc, perm) ==
    IF loc = Bad THEN Res(f, "ENOENT", {})
    ELSE IF Exists(f, loc) THEN Res(f, "EEXIST", {})
    ELSE IF ~Writable(f, Front(loc)) THEN Res(f, "EACCES", {})
    ELSE Res(AddNode(f, loc, NewNode("dir", perm, <<>>)), "nil", {loc})

Mkdir(f, p, perm) == MkdirAt(f, LReal(f, p), perm)

\* os.MkdirAll(path, 0777): nothing to do when the path is a directory;
\* else the parent is made first, then the directory itself (a directory
\* made by someone else in between is accepted).
MkdirAllLast(up, mk, lst) ==
    IF mk.err # "nil" /\ lst # Bad /\ IsDirAt(up.fs, lst)
    THEN Res(up.fs, "nil", up.at)
    ELSE Res(mk.fs, mk.err, up.at \cup mk.at)

MkdirAllIn(up, p) ==
    IF up.err # "nil" THEN up
    ELSE MkdirAllLast(up, Mkdir(up.fs, p, FullPerm), LReal(up.fs, p))

RECURSIVE MkdirAll(_, _)
MkdirAllStat(f, p, st) ==
    IF st # Bad /\ Exists(f, st)
    THEN Res(f, IF IsDirAt(f, st) THEN "nil" ELSE "ENOTDIR", {})
    ELSE MkdirAllIn(IF Len(p) > 1 THEN MkdirAll(f, Front(p)) ELSE Res(f, "nil", {}), p)

MkdirAll(f, p) == MkdirAllStat(f, p, Stat(f, p))

\* os.Remove(path): a file, a symbolic link or an empty directory.
RemoveAt(f, loc) ==
    IF loc = Bad THEN Res(f, "ENOTDIR", {})
    ELSE IF loc = <<>> THEN Res(f, "EBUSY", {})
    ELSE IF loc \notin DOMAIN f THEN Res(f, "ENOENT", {})
    ELSE IF Children(f, loc) # {} THEN Res(f, "ENOTEMPTY", {})
    ELSE IF ~Writable(f, Front(loc)) THEN Res(f, "EACCES", {})
    ELSE Res(DelNode(f, loc), "nil", {loc})

Remove(f, p) == RemoveAt(f, LReal(f, p))

\* os.Symlink(target, path)
SymlinkAt(f, target, loc) ==
    IF loc = Bad THEN Res(f, "ENOENT", {})
    ELSE IF Exists(f, loc) THEN Res(f, "EEXIST", {})
    ELSE IF ~Writable(f, Front(loc)) THEN Res(f, "EACCES", {})
    ELSE Res(AddNode(f, loc, NewNode("symlink", FullPerm, Comps(target))), "nil", {loc})

Symlink(f, target, p) == SymlinkAt(f, target, LReal(f, p))

\* os.OpenFile(path, O_WRONLY|O_CREATE|O_TRUNC, perm): a symbolic link at the
\* path is followed; an existing file is truncated.
OpenFileAt(f, loc, perm) ==
    IF loc = Bad THEN Res(f, "ENOENT", {})
    ELSE IF IsDirAt(f, loc) THEN Res(f, "EISDIR", {})
    ELSE IF loc \in DOMAIN f
         THEN IF "w" \in f[loc].perm
              THEN Res([f EXCEPT ![loc].data = <<>>, ![loc].mtime = Now], "nil", {loc})
              ELSE Res(f, "EACCES", {})
    ELSE IF ~Writable(f, Front(loc)) THEN Res(f, "EACCES", {})
    ELSE Res(AddNode(f, loc, NewNode("file", perm, <<>>)), "nil", {loc})

OpenFile(f, p, perm) == OpenFileAt(f, Stat(f, p), perm)

\* The bytes written through the open file (the node it was opened on): they
\* follow the bytes written before.
WriteData(f, at, data) ==
    [x \in DOMAIN f |->
        IF x \in at THEN [f[x] EXCEPT !.data = @ \o data, !.mtime = Now] ELSE f[x]]

\* ------------------------------------------------------------ bufio.Writer
\* A bufio.Writer is [buf, err, wr]: the bytes it holds, its sticky error and
\* the open file it writes to.
\* bufioWriterPool.New: bufio.NewWriterSize(nil, 32*1024)
NewWriter == [buf |-> <<>>, err |-> "nil", wr |-> {}]

\* No writer is held.
NoWriter == [buf |-> <<>>, err |-> "none", wr |-> {}]

\* A variant of bufReset: the error is dropped, the bytes held are kept.
bufResetKeeps(b, w) == [b EXCEPT !.wr = w, !.err = "nil"]

\* bw.Reset(f): the buffered bytes and the error are dropped.
bufReset(b, w) == [buf |-> <<>>, err |-> "nil", wr |-> w]

\* bw.ReadFrom(r): the entry's bytes are read into the writer, unless it has
\* an error.
bufReadFrom(b, body) ==
    IF b.err # "nil" THEN [bw |-> b, err |-> b.err]
    ELSE [bw |-> [b EXCEPT !.buf = @ \o body], err |-> "nil"]

\* The result of a write through a writer: that of a file-system call, and
\* the writer afterwards.
Written(f, e, at, b) == [fs |-> f, err |-> e, at |-> at, bw |-> b]

\* bw.Flush(): the bytes held are written to the file; a write error stays in
\* the writer, with the bytes.
bufFlush(f, b, io) ==
    IF b.err # "nil" THEN Written(f, b.err, {}, b)
    ELSE IF io = "write" THEN Written(f, "EIO", {}, [b EXCEPT !.err = "EIO"])
    ELSE Written(WriteData(f, b.wr, b.buf), "nil", b.wr, [b EXCEPT !.buf = <<>>])

\* ---------------------------------------------------------------- archive
\* A zip.File is [Name, Mode, ModTime, Extra, Body]: Mode is the set of its
\* os.FileMode bits (type bits and permission bits), Extra is "none" or the
\* owner recorded in its Info-ZIP new unix field, Body its decoded content
\* (for a symbolic link, the target).
Nil == [kind |-> "nil", name |-> <<>>]

\* Extract has not returned.
Pending == [kind |-> "pending", name |-> <<>>]

Err(kind, name) == [kind |-> kind, name |-> name]

File(name, mode, mtime, extra, body) ==
    [Name |-> name, Mode |-> mode, ModTime |-> mtime, Extra |-> extra, Body |-> body]

\* e.chroot: "/r", absolute and clean (NewExtractor)
chroot == <<"/", "r">>

\* os.ModeSocket | os.ModeDevice | os.ModeCharDevice | os.ModeNamedPipe
irregularModes == {"socket", "device", "chardevice", "pipe"}

\* FileMode.Perm()
Perm(mode) == mode \cap FullPerm

\* FileMode.IsDir()
IsDir(mode) == "dir" \in mode

\* The entries archives are made of: a directory, a file in it, a symbolic
\* link in a directory that is read-only in the archive, that directory, a
\* symbolic link in it that comes after it, an entry that leaves the root, a
\* symbolic link to a directory outside the root, a file below that link, a
\* file in a sibling directory whose name starts with the root's, and a named
\* pipe whose name ends with a slash (zip.FileHeader.Mode adds the directory
\* bit for such a name).
Catalogue ==
    << File(<<"d", "/">>, {"dir", "r", "w", "x"}, "t1", "u1", <<>>),
       File(<<"d", "/", "f">>, {"r", "w"}, "t2", "u1", <<"A">>),
       File(<<"d", "/", "s", "/", "k">>, {"symlink", "r", "w", "x"}, "t1", "none",
            <<"/", "o">>),
       File(<<"d", "/", "s", "/">>, {"dir", "r", "x"}, "t2", "u1", <<>>),
       File(<<"d", "/", "s", "/", "j">>, {"symlink", "r", "w", "x"}, "t2", "none",
            <<"/", "o">>),
       File(<<".", ".", "/", "o", "/", "x">>, {"r", "w"}, "t1", "none", <<"D">>),
       File(<<"l">>, {"symlink", "r", "w", "x"}, "t1", "u1", <<"/", "o">>),
       File(<<"l", "/", "x">>, {"r", "w"}, "t2", "u1", <<"B">>),
       File(<<".", ".", "/", "r", "e", "/", "x">>, {"r", "w"}, "t1", "none", <<"C">>),
       File(<<".", ".", "/", "o", "/">>, {"pipe", "dir", "r", "x"}, "t1", "none", <<>>) >>

\* The directory tree an archive is made from: a directory, a file in it and
\* a symbolic link, each with its permission bits, modification time, owner
\* and content (for the link, its target).
Tree ==
    << [name |-> <<"d", "/">>, kind |-> "dir", perm |-> {"r", "w", "x"},
        mtime |-> "t1", owner |-> "u1", data |-> <<>>],
       [name |-> <<"d", "/", "f">>, kind |-> "file", perm |-> {"r", "w"},
        mtime |-> "t2", owner |-> "u1", data |-> <<"A">>],
       [name |-> <<"l">>, kind |-> "symlink", perm |-> {"r", "w", "x"},
        mtime |-> "t1", owner |-> "u1", data |-> <<"/", "o">>] >>

\* The os.FileMode of a node: its type bit, if any, and its permission bits.
FileMode(n) == (IF n.kind = "file" THEN {} ELSE {n.kind}) \cup n.perm

\* zip.FileInfoHeader for a node of the tree: no extra field yet.
FileInfoHeader(n) == File(n.name, FileMode(n), n.mtime, "none", n.data)

\* Archiver.createHeader(hdr): with the node's Stat_t at hand (ok), the
\* Info-ZIP new unix field with its owner is added to hdr.Extra.
createHeader(hdr, ok, owner) == IF ok THEN [hdr EXCEPT !.Extra = owner] ELSE hdr

\* The entry the Archiver writes for the n-th node of the tree.
Packed(n) == createHeader(FileInfoHeader(Tree[n]), TRUE, Tree[n].owner)

Increasing(s) == \A a, b \in DOMAIN s : a < b => s[a] < s[b]

\* The archives explored: up to MaxEntries entries of the catalogue, in the
\* catalogue's order, no entry twice.
Archives ==
    UNION {{[n \in 1..len |-> Catalogue[s[n]]] :
               s \in {t \in [1..len -> DOMAIN Catalogue] : Increasing(t)}} :
           len \in 0..MaxEntries}

\* The file system before Extract: the extraction root /r and a directory /o
\* beside it.
InitFS == [x \in {<< <<"r">> >>, << <<"o">> >>} |-> NewNode("dir", FullPerm, <<>>)]

\* -------------------------------------------------------- metadata restore
Missing(f, loc) == loc = Bad \/ loc = <<>> \/ loc \notin DOMAIN f

\* lchtimes(path, mode, atime, mtime): the node itself, never a link's target.
lchtimesAt(f, loc, mtime) ==
    IF Missing(f, loc) THEN Res(f, "ENOENT", {})
    ELSE Res([f EXCEPT ![loc].mtime = mtime], "nil", {loc})

lchtimes(f, p, mtime) == lchtimesAt(f, LReal(f, p), mtime)

\* lchmod(path, mode)
lchmodAt(f, loc, mode) ==
    IF Missing(f, loc) THEN Res(f, "ENOENT", {})
    ELSE Res([f EXCEPT ![loc].perm = Perm(mode)], "nil", {loc})

lchmod(f, p, mode) == lchmodAt(f, LReal(f, p), mode)

\* lchown(path, uid, gid); ok is whether the system lets the caller do it.
lchownAt(f, loc, owner, ok) ==
    IF Missing(f, loc) THEN Res(f, "ENOENT", {})
    ELSE IF ~ok THEN Res(f, "EPERM", {})
    ELSE Res([f EXCEPT ![loc].owner = owner], "nil", {loc})

lchown(f, p, owner, ok) == lchownAt(f, LReal(f, p), owner, ok)

\* The result of updateFileMetadata and createSymlink: that of a file-system
\* call, the error now an error value, and whether lchown failed and whether
\* ChownErrorHandler was called.
Meta(f, e, at, chown, hook) ==
    [fs |-> f, err |-> e, at |-> at, chown |-> chown, hook |-> hook]

\* A variant of chownResult: the failure of lchown is returned whatever the
\* handler answers.
chownResultIgnoresHook(o, at, file, handlerSet, hookRet) ==
    IF o.err = "nil" THEN Meta(o.fs, Nil, at \cup o.at, FALSE, FALSE)
    ELSE Meta(o.fs, Err(o.err, file.Name), at, TRUE, handlerSet)

\* Lines 252-261 of updateFileMetadata: o is lchown's result.  The handler,
\* if set, decides; without a handler the failure sits in an inner err that
\* shadows the result, and nil is returned.
chownResult(o, at, file, handlerSet, hookRet) ==
    IF o.err = "nil" THEN Meta(o.fs, Nil, at \cup o.at, FALSE, FALSE)
    ELSE IF handlerSet
         THEN Meta(o.fs, IF hookRet # "nil" THEN Err(hookRet, file.Name) ELSE Nil,
                   at, TRUE, TRUE)
         ELSE Meta(o.fs, Nil, at, TRUE, FALSE)

\* Lines 242-262: m is lchmod's result.
chmodResult(m, at, p, file, handlerSet, chownOk, hookRet) ==
    IF m.err # "nil" THEN Meta(m.fs, Err(m.err, file.Name), at, FALSE, FALSE)
    ELSE IF file.Extra = "none" THEN Meta(m.fs, Nil, at \cup m.at, FALSE, FALSE)
    ELSE chownResult(lchown(m.fs, p, file.Extra, chownOk), at \cup m.at, file,
                     handlerSet, hookRet)

\* Lines 238-262: t is lchtimes's result.
chtimesResult(t, p, file, handlerSet, chownOk, hookRet) ==
    IF t.err # "nil" THEN Meta(t.fs, Err(t.err, file.Name), {}, FALSE, FALSE)
    ELSE chmodResult(lchmod(t.fs, p, file.Mode), t.at, p, file, handlerSet,
                     chownOk, hookRet)

\* Extractor.updateFileMetadata(path, file).  handlerSet: e.ChownErrorHandler
\* is not nil; chownOk: lchown succeeds; hookRet: what the handler returns
\* when it is called.
updateFileMetadata(f, p, file, handlerSet, chownOk, hookRet) ==
    IF file.Extra = "corrupt" THEN Meta(f, Err("extra", file.Name), {}, FALSE, FALSE)
    ELSE chtimesResult(lchtimes(f, p, file.ModTime), p, file, handlerSet,
                       chownOk, hookRet)

\* Lines 257-259 of updateFileMetadata: what it returns once the handler has
\* answered the failed lchown.
hookResult(f, file, hookRet) == chownResult(Res(f, "EPERM", {}), {}, file, TRUE, hookRet)

\* ------------------------------------------------------------ entry writers
\* Lines 175-178 of createDirectory: mk is os.Mkdir's result.
mkdirResult(mk, file) ==
    Res(mk.fs, IF mk.err \in {"nil", "EEXIST"} THEN Nil ELSE Err(mk.err, file.Name),
        mk.at)

\* Extractor.createDirectory(path, file)
createDirectory(f, p, file) == mkdirResult(Mkdir(f, p, Perm(file.Mode)), file)

Also(md, at) == [md EXCEPT !.at = at \cup md.at]

\* A variant of symlinkResult: the link is created and its metadata is left
\* as created.
symlinkResultNoRestore(sl, at, p, file, handlerSet, chownOk, hookRet) ==
    IF sl.err # "nil" THEN Meta(sl.fs, Err(sl.err, file.Name), at, FALSE, FALSE)
    ELSE Meta(sl.fs, Nil, at \cup sl.at, FALSE, FALSE)

\* Lines 197-201 of createSymlink: sl is os.Symlink's result.
symlinkResult(sl, at, p, file, handlerSet, chownOk, hookRet) ==
    IF sl.err # "nil" THEN Meta(sl.fs, Err(sl.err, file.Name), at, FALSE, FALSE)
    ELSE Also(updateFileMetadata(sl.fs, p, file, handlerSet, chownOk, hookRet),
              at \cup sl.at)

\* Lines 182-201: rm is os.Remove's result.
symlinkRemoved(rm, p, file, handlerSet, chownOk, hookRet) ==
    IF rm.err \notin {"nil", "ENOENT"}
    THEN Meta(rm.fs, Err(rm.err, file.Name), {}, FALSE, FALSE)
    ELSE symlinkResult(Symlink(rm.fs, file.Body, p), rm.at, p, file, handlerSet,
                       chownOk, hookRet)

\* Extractor.createSymlink(path, file)
createSymlink(f, p, file, handlerSet, chownOk, hookRet) ==
    symlinkRemoved(Remove(f, p), p, file, handlerSet, chownOk, hookRet)

\* The result of the first part of createFile: that of a file-system call,
\* the error now an error value, and the file that was opened.
Opened(f, e, at, wr) == [fs |-> f, err |-> e, at |-> at, wr |-> wr]

\* Lines 215-219 of createFile: op is os.OpenFile's result.
fileOpened(op, at, file) ==
    IF op.err # "nil" THEN Opened(op.fs, Err(op.err, file.Name), at, {})
    ELSE Opened(op.fs, Nil, at \cup op.at, op.at)

\* Lines 205-219: rm is os.Remove's result.
fileRemoved(rm, p, file, io) ==
    IF rm.err \notin {"nil", "ENOENT"} THEN Opened(rm.fs, Err(rm.err, file.Name), {}, {})
    ELSE IF io = "open" THEN Opened(rm.fs, Err("EIO", file.Name), rm.at, {})
    ELSE fileOpened(OpenFile(rm.fs, p, Perm(file.Mode)), rm.at, file)

\* Extractor.createFile(path, file) up to the open file, lines 205-219; io:
\* "ok", or "open": file.Open fails with an I/O error.
createFileOpen(f, p, file, io) == fileRemoved(Remove(f, p), p, file, io)

\* Line 229: fl is bw.Flush's result.
flushResult(fl, file) ==
    Written(fl.fs, IF fl.err = "nil" THEN Nil ELSE Err(fl.err, file.Name), fl.at, fl.bw)

\* Lines 225-229: rf is bw.ReadFrom's result.
readResult(rf, f, file, io) ==
    IF rf.err # "nil" THEN Written(f, Err(rf.err, file.Name), {}, rf.bw)
    ELSE flushResult(bufFlush(f, rf.bw, io), file)

\* Extractor.createFile from bw.ReadFrom on, lines 225-229, b the writer after
\* bw.Reset(f); io: "ok", or "write": writing to the file fails.
createFileWrite(f, b, file, io) == readResult(bufReadFrom(b, file.Body), f, file, io)

\* -------------------------------------------------------------------- state
VARIABLES
    zr,           \* e.zr.File: the archive's entries
    concurrency,  \* e.options.concurrency
    handlerSet,   \* e.ChownErrorHandler # nil
    before,       \* the Extract before this one: whether there was one, the file
                  \*   system it left and the entries whose lchown failed in it
    fs,           \* the file system
    pc,           \* where Extract is: "loop", "dispatch", "fixup", "lock", "hook",
                  \*   "deferred", "done"
    i,            \* the index of the entry the loops of Extract are at
    path,         \* Extract's path
    err,          \* Extract's named result err
    limiter,      \* the number of elements in the limiter channel
    tpc,          \* per entry, where its goroutine is: "idle", "create", "write", "meta",
                  \*   "lock", "hook", "release", "report", "done"
    terr,         \* per entry, the error its closure returns
    gerr,         \* the errgroup's err (set once)
    captured,     \* the entry whose goroutine first reported an error (0: none)
    ctxDone,      \* the errgroup's context is cancelled
    m,            \* e.m: the entry whose updateFileMetadata holds it (0: unlocked)
    ret,          \* what Extract returned; Pending before it returns
    pool,         \* bufioWriterPool: the bag of the writers in it
    bw,           \* per entry, the writer its createFile holds (NoWriter: none)
    dirty,        \* history: the entries whose createFile got a writer from the
                  \*   pool that held bytes or an error
    written,      \* history: per createFile that returned nil, the entry, the
                  \*   location of the file written and the bytes left in the writer
    \* what happened so far (read by no action):
    touched,      \* the locations created, removed or written
    acted,        \* the entries a file-system call was made for
    restored,     \* the directory entries restored by the final pass
    rejected,     \* the entry the path check rejected (0: none)
    own,          \* the value of Extract's return statement (Pending: none yet)
    first,        \* the first failure that happened (Nil: none)
    chownFailed,  \* the entries whose lchown failed
    hookCalls     \* the calls of ChownErrorHandler: [name, err, ret], and res:
                  \*   what updateFileMetadata returned after the call

vars == <<zr, concurrency, handlerSet, before, fs, pc, i, path, err, limiter, tpc, terr,
          gerr, captured, ctxDone, m, ret, pool, bw, dirty, written, touched, acted,
          restored, rejected, own, first, chownFailed, hookCalls>>

config == <<zr, concurrency, handlerSet>>

group == <<limiter, tpc, terr, gerr, captured, ctxDone>>

buffers == <<pool, bw, dirty, written>>

history == <<touched, acted, restored, rejected, own, first, chownFailed, hookCalls>>

Entries == 1..Len(zr)

\* The goroutines of the group that have not returned (wg.Wait blocks on them).
Running == {k \in Entries : tpc[k] \notin {"idle", "done"}}

\* filepath.Abs(filepath.Join(e.chroot, file.Name))
Resolve(file) == Abs(Join(chroot, file.Name))

\* The path check of Extract.
PathAccepted(p) == HasPrefix(p, chroot)

\* The first failure is kept.
Note(e) == IF first = Nil THEN e ELSE first

\* What a call of updateFileMetadata adds to the record of ChownErrorHandler calls.
Called(md, file, hookRet) ==
    IF md.hook
    THEN {[name |-> file.Name, err |-> "EPERM", ret |-> hookRet, res |-> md.err]}
    ELSE {}

Init ==
    /\ zr \in Archives
    /\ concurrency \in {1, MaxConcurrency}
    /\ handlerSet \in BOOLEAN
    /\ before = [done |-> FALSE, fs |-> InitFS, chownFailed |-> {}]
    /\ fs = InitFS
    /\ pc = "loop"
    /\ i = 1
    /\ path = <<>>
    /\ err = Nil
    /\ limiter = 0
    /\ tpc = [k \in Entries |-> "idle"]
    /\ terr = [k \in Entries |-> Nil]
    /\ gerr = Nil
    /\ captured = 0
    /\ ctxDone = FALSE
    /\ m = 0
    /\ ret = Pending
    /\ pool = EmptyBag
    /\ bw = [k \in Entries |-> NoWriter]
    /\ dirty = {}
    /\ written = {}
    /\ touched = {}
    /\ acted = {}
    /\ restored = {}
    /\ rejected = 0
    /\ own = Pending
    /\ first = Nil
    /\ chownFailed = {}
    /\ hookCalls = {}

\* ------------------------------------------------------------------ Extract
\* filepath.Dir of a clean rooted path, as components.
Dir(p) == IF Comps(p) = <<>> THEN <<>> ELSE Front(Comps(p))

HookResults == {"nil", "hook"}

IoResults == {"ok", "open", "write"}

\* "return e" in Extract: the named result is set and the deferred function runs.
Return(e) ==
    /\ err' = e
    /\ own' = e
    /\ pc' = "deferred"

\* An assignment to err that is no return.
SetErr(e) ==
    /\ err' = e
    /\ own' = own

\* Lines 99-101: an entry with an irregular mode bit is skipped.
Skip ==
    /\ pc = "loop"
    /\ i \in Entries
    /\ zr[i].Mode \cap irregularModes # {}
    /\ i' = i + 1
    /\ UNCHANGED <<config, before, buffers, m, fs, pc, path, err, group, ret, history>>

\* A variant of Reject: the entry is passed over and the loop goes on.
RejectContinue ==
    /\ pc = "loop"
    /\ i \in Entries
    /\ zr[i].Mode \cap irregularModes = {}
    /\ ~PathAccepted(Resolve(zr[i]))
    /\ path' = Resolve(zr[i])
    /\ rejected' = i
    /\ i' = i + 1
    /\ UNCHANGED <<config, before, buffers, m, fs, pc, err, group, ret, touched, acted, restored, own,
                   first, chownFailed, hookCalls>>

\* Lines 103-111: the resolved path does not start with chroot.
Reject ==
    /\ pc = "loop"
    /\ i \in Entries
    /\ zr[i].Mode \cap irregularModes = {}
    /\ ~PathAccepted(Resolve(zr[i]))
    /\ path' = Resolve(zr[i])
    /\ Return(Err("escape", zr[i].Name))
    /\ rejected' = i
    /\ first' = Note(Err("escape", zr[i].Name))
    /\ UNCHANGED <<config, before, buffers, m, fs, i, group, ret, touched, acted, restored,
                   chownFailed, hookCalls>>

\* Lines 103-121: the path is accepted, the parent directories are made and
\* the context is looked at.
Parents ==
    /\ pc = "loop"
    /\ i \in Entries
    /\ zr[i].Mode \cap irregularModes = {}
    /\ PathAccepted(Resolve(zr[i]))
    /\ path' = Resolve(zr[i])
    /\ \E mk \in {MkdirAll(fs, Dir(Resolve(zr[i])))} :
         /\ fs' = mk.fs
         /\ touched' = touched \cup mk.at
         /\ IF mk.err # "nil"
            THEN /\ Return(Err(mk.err, zr[i].Name))
                 /\ first' = Note(Err(mk.err, zr[i].Name))
            ELSE /\ first' = first
                 /\ IF ctxDone
                    THEN Return(Err("canceled", <<>>))
                    ELSE /\ SetErr(Nil)
                         /\ pc' = "dispatch"
    /\ acted' = acted \cup {i}
    /\ UNCHANGED <<config, before, buffers, m, i, group, ret, restored, rejected, chownFailed, hookCalls>>

\* Lines 143-146 after a synchronous entry: return the error or go on.
After(e) ==
    IF e # Nil
    THEN /\ Return(e)
         /\ first' = Note(e)
         /\ i' = i
    ELSE /\ SetErr(Nil)
         /\ pc' = "loop"
         /\ first' = first
         /\ i' = i + 1

\* Lines 124-125
DispatchDir ==
    /\ pc = "dispatch"
    /\ IsDir(zr[i].Mode)
    /\ \E r \in {createDirectory(fs, Comps(path), zr[i])} :
         /\ fs' = r.fs
         /\ touched' = touched \cup r.at
         /\ After(r.err)
    /\ UNCHANGED <<config, before, buffers, m, path, group, ret, acted, restored, rejected,
                   chownFailed, hookCalls>>

\* Lines 127-128
DispatchSymlink ==
    /\ pc = "dispatch"
    /\ ~IsDir(zr[i].Mode)
    /\ "symlink" \in zr[i].Mode
    /\ \E chownOk \in BOOLEAN :
       \E r \in {createSymlink(fs, Comps(path), zr[i], handlerSet, chownOk, "nil")} :
         /\ fs' = r.fs
         /\ touched' = touched \cup r.at
         /\ IF r.hook
            THEN /\ pc' = "lock"
                 /\ UNCHANGED <<i, err, own, first, chownFailed>>
            ELSE /\ chownFailed' = chownFailed \cup (IF r.chown THEN {i} ELSE {})
                 /\ After(r.err)
    /\ UNCHANGED <<config, before, buffers, m, path, group, ret, acted, restored, rejected,
                   hookCalls>>

\* A variant of DispatchFile: the send on the limiter never blocks.
DispatchFileUnbounded ==
    /\ pc = "dispatch"
    /\ ~IsDir(zr[i].Mode)
    /\ "symlink" \notin zr[i].Mode
    /\ limiter' = limiter + 1
    /\ tpc' = [tpc EXCEPT ![i] = "create"]
    /\ i' = i + 1
    /\ pc' = "loop"
    /\ UNCHANGED <<config, before, buffers, m, fs, path, err, terr, gerr, captured, ctxDone, ret, history>>

\* Lines 130-141: a slot of the limiter is taken (the send blocks while the
\* channel is full) and the goroutine is started.
DispatchFile ==
    /\ pc = "dispatch"
    /\ ~IsDir(zr[i].Mode)
    /\ "symlink" \notin zr[i].Mode
    /\ limiter < concurrency
    /\ limiter' = limiter + 1
    /\ tpc' = [tpc EXCEPT ![i] = "create"]
    /\ i' = i + 1
    /\ pc' = "loop"
    /\ UNCHANGED <<config, before, buffers, m, fs, path, err, terr, gerr, captured, ctxDone, ret, history>>

\* bufioWriterPool.Get(): one of the writers in the pool, which leaves the
\* pool, or a new one (fresh).
Get(got, fresh) == IF fresh THEN got = NewWriter ELSE BagIn(got, pool)

\* The pool after Get.
Taken(got, fresh) == IF fresh THEN pool ELSE pool (-) SetToBag({got})

\* bufioWriterPool.Put(b).  The file the writer still refers to is closed
\* and never written through again (bw.Reset replaces it): it is left out.
Put(b) == pool (+) SetToBag({[b EXCEPT !.wr = {}]})

\* Lines 136 and 205-224: the goroutine of entry k enters createFile, which
\* opens the file, takes a writer from the pool and resets it.
TaskCreate(k) ==
    /\ tpc[k] = "create"
    /\ \E io \in IoResults \cap {"ok", "open"} :
       \E r \in {createFileOpen(fs, Comps(Resolve(zr[k])), zr[k], io)} :
         /\ fs' = r.fs
         /\ touched' = touched \cup r.at
         /\ IF r.err = Nil
            THEN /\ \E got \in BagToSet(pool) \cup {NewWriter}, fresh \in BOOLEAN :
                      /\ Get(got, fresh)
                      /\ pool' = Taken(got, fresh)
                      /\ bw' = [bw EXCEPT ![k] = bufReset(got, r.wr)]
                      /\ dirty' = dirty \cup
                             (IF got.buf # <<>> \/ got.err # "nil" THEN {k} ELSE {})
                 /\ tpc' = [tpc EXCEPT ![k] = "write"]
                 /\ UNCHANGED <<terr, first>>
            ELSE /\ terr' = [terr EXCEPT ![k] = r.err]
                 /\ tpc' = [tpc EXCEPT ![k] = "release"]
                 /\ first' = Note(r.err)
                 /\ UNCHANGED <<pool, bw, dirty>>
    /\ acted' = acted \cup {k}
    /\ UNCHANGED <<config, before, m, pc, i, path, err, limiter, gerr, captured, ctxDone, ret,
                   written, restored, rejected, own, chownFailed, hookCalls>>

\* Lines 225-229 and 222: createFile reads the entry into the writer and
\* flushes it; the writer goes back to the pool as it is.
TaskWrite(k) ==
    /\ tpc[k] = "write"
    /\ \E io \in IoResults \ {"open"} :
       \E r \in {createFileWrite(fs, bw[k], zr[k], io)} :
         /\ fs' = r.fs
         /\ touched' = touched \cup r.at
         /\ terr' = [terr EXCEPT ![k] = r.err]
         /\ tpc' = [tpc EXCEPT ![k] = IF r.err = Nil THEN "meta" ELSE "release"]
         /\ first' = IF r.err = Nil THEN first ELSE Note(r.err)
         /\ pool' = Put(r.bw)
         /\ written' = written \cup
                (IF r.err = Nil THEN {[entry |-> k, at |-> r.at, left |-> r.bw.buf]}
                 ELSE {})
    /\ bw' = [bw EXCEPT ![k] = NoWriter]
    /\ UNCHANGED <<config, before, m, pc, i, path, err, limiter, gerr, captured, ctxDone, ret,
                   dirty, acted, restored, rejected, own, chownFailed, hookCalls>>

\* Lines 137-140: createFile succeeded, the goroutine runs updateFileMetadata.
TaskMeta(k) ==
    /\ tpc[k] = "meta"
    /\ \E chownOk \in BOOLEAN :
       \E r \in {updateFileMetadata(fs, Comps(Resolve(zr[k])), zr[k], handlerSet,
                                     chownOk, "nil")} :
         /\ fs' = r.fs
         /\ touched' = touched \cup r.at
         /\ IF r.hook
            THEN /\ tpc' = [tpc EXCEPT ![k] = "lock"]
                 /\ UNCHANGED <<terr, first, chownFailed>>
            ELSE /\ tpc' = [tpc EXCEPT ![k] = "release"]
                 /\ terr' = [terr EXCEPT ![k] = r.err]
                 /\ first' = IF r.err = Nil THEN first ELSE Note(r.err)
                 /\ chownFailed' = chownFailed \cup (IF r.chown THEN {k} ELSE {})
    /\ UNCHANGED <<config, before, buffers, m, pc, i, path, err, limiter, gerr, captured,
                   ctxDone, ret, acted, restored, rejected, own, hookCalls>>

\* A variant of TaskLock: the handler is entered without e.m.
TaskLockNoMutex(k) ==
    /\ tpc[k] = "lock"
    /\ m' = k
    /\ tpc' = [tpc EXCEPT ![k] = "hook"]
    /\ UNCHANGED <<config, before, buffers, fs, pc, i, path, err, limiter, terr, gerr,
                   captured, ctxDone, ret, history>>

\* Line 254 in a goroutine: e.m.Lock() blocks while e.m is held; then the
\* handler is entered.
TaskLock(k) ==
    /\ tpc[k] = "lock"
    /\ m = 0
    /\ m' = k
    /\ tpc' = [tpc EXCEPT ![k] = "hook"]
    /\ UNCHANGED <<config, before, buffers, fs, pc, i, path, err, limiter, terr, gerr,
                   captured, ctxDone, ret, history>>

\* Lines 255-264 in a goroutine: the handler returns, updateFileMetadata
\* returns its answer and the deferred e.m.Unlock() runs.
TaskHook(k) ==
    /\ tpc[k] = "hook"
    /\ \E hookRet \in HookResults :
       \E r \in {hookResult(fs, zr[k], hookRet)} :
         /\ terr' = [terr EXCEPT ![k] = r.err]
         /\ first' = IF r.err = Nil THEN first ELSE Note(r.err)
         /\ hookCalls' = hookCalls \cup Called(r, zr[k], hookRet)
    /\ chownFailed' = chownFailed \cup {k}
    /\ m' = 0
    /\ tpc' = [tpc EXCEPT ![k] = "release"]
    /\ UNCHANGED <<config, before, buffers, fs, pc, i, path, err, limiter, gerr, captured,
                   ctxDone, ret, touched, acted, restored, rejected, own>>

\* A variant of TaskRelease: the slot is given back only when the closure
\* returns nil.
TaskReleaseOnSuccess(k) ==
    /\ tpc[k] = "release"
    /\ limiter' = (IF terr[k] = Nil THEN limiter - 1 ELSE limiter)
    /\ tpc' = [tpc EXCEPT ![k] = "report"]
    /\ UNCHANGED <<config, before, buffers, m, fs, pc, i, path, err, terr, gerr, captured, ctxDone, ret, history>>

\* Line 135: the closure's deferred receive gives the slot back.
TaskRelease(k) ==
    /\ tpc[k] = "release"
    /\ limiter' = limiter - 1
    /\ tpc' = [tpc EXCEPT ![k] = "report"]
    /\ UNCHANGED <<config, before, buffers, m, fs, pc, i, path, err, terr, gerr, captured, ctxDone, ret, history>>

\* errgroup.Group.Go: the closure has returned; the first error is kept and
\* cancels the context; then the goroutine is done.
TaskReport(k) ==
    /\ tpc[k] = "report"
    /\ IF terr[k] # Nil /\ gerr = Nil
       THEN /\ gerr' = terr[k]
            /\ ctxDone' = TRUE
       ELSE UNCHANGED <<gerr, ctxDone>>
    /\ captured' = (IF terr[k] # Nil /\ captured = 0 THEN k ELSE captured)
    /\ tpc' = [tpc EXCEPT ![k] = "done"]
    /\ UNCHANGED <<config, before, buffers, m, fs, pc, i, path, err, limiter, terr, ret, history>>

\* A variant of Wait: the final pass starts without waiting for the goroutines.
WaitNoJoin ==
    /\ pc = "loop"
    /\ i > Len(zr)
    /\ ctxDone' = ctxDone
    /\ IF gerr # Nil
       THEN /\ Return(gerr)
            /\ i' = i
       ELSE /\ SetErr(Nil)
            /\ pc' = "fixup"
            /\ i' = 1
    /\ UNCHANGED <<config, before, buffers, m, fs, path, limiter, tpc, terr, gerr, captured, ret, touched, acted,
                   restored, rejected, first, chownFailed, hookCalls>>

\* A variant of Wait: the final pass starts also when the group has an error.
WaitIgnoresError ==
    /\ pc = "loop"
    /\ i > Len(zr)
    /\ Running = {}
    /\ ctxDone' = TRUE
    /\ SetErr(gerr)
    /\ pc' = "fixup"
    /\ i' = 1
    /\ UNCHANGED <<config, before, buffers, m, fs, path, limiter, tpc, terr, gerr, captured, ret, touched, acted,
                   restored, rejected, first, chownFailed, hookCalls>>

\* Lines 148-150: after the last entry, wg.Wait blocks until every goroutine
\* is done (and cancels the context).
Wait ==
    /\ pc = "loop"
    /\ i > Len(zr)
    /\ Running = {}
    /\ ctxDone' = TRUE
    /\ IF gerr # Nil
       THEN /\ Return(gerr)
            /\ i' = i
       ELSE /\ SetErr(Nil)
            /\ pc' = "fixup"
            /\ i' = 1
    /\ UNCHANGED <<config, before, buffers, m, fs, path, limiter, tpc, terr, gerr, captured, ret, touched, acted,
                   restored, rejected, first, chownFailed, hookCalls>>

\* Lines 154-157: the final pass passes over an entry that is no directory.
FixupSkip ==
    /\ pc = "fixup"
    /\ i \in Entries
    /\ ~IsDir(zr[i].Mode)
    /\ i' = i + 1
    /\ UNCHANGED <<config, before, buffers, m, fs, pc, path, err, group, ret, history>>

\* Lines 165-167 in the final pass: return the error or go on; Extract's err
\* is not assigned (the loop has its own).
FixupAfter(e) ==
    IF e # Nil
    THEN /\ Return(e)
         /\ first' = Note(e)
         /\ i' = i
    ELSE /\ i' = i + 1
         /\ pc' = "fixup"
         /\ UNCHANGED <<err, own, first>>

\* Lines 159-167: the final pass restores the metadata of a directory entry.
FixupDir ==
    /\ pc = "fixup"
    /\ i \in Entries
    /\ IsDir(zr[i].Mode)
    /\ \E chownOk \in BOOLEAN :
       \E r \in {updateFileMetadata(fs, Comps(Resolve(zr[i])), zr[i], handlerSet,
                                     chownOk, "nil")} :
         /\ fs' = r.fs
         /\ touched' = touched \cup r.at
         /\ IF r.hook
            THEN /\ pc' = "lock"
                 /\ UNCHANGED <<i, err, own, first, chownFailed>>
            ELSE /\ chownFailed' = chownFailed \cup (IF r.chown THEN {i} ELSE {})
                 /\ FixupAfter(r.err)
    /\ restored' = restored \cup {i}
    /\ UNCHANGED <<config, before, buffers, m, path, group, ret, acted, rejected, hookCalls>>

\* Line 254 on the orchestrator (createSymlink, final pass): e.m.Lock() blocks
\* while a goroutine holds e.m; then the handler is entered.
OrchLock ==
    /\ pc = "lock"
    /\ m = 0
    /\ m' = i
    /\ pc' = "hook"
    /\ UNCHANGED <<config, before, buffers, fs, i, path, err, group, ret, history>>

\* Lines 255-264 on the orchestrator: the handler returns, e.m is unlocked,
\* and Extract goes on after createSymlink (lines 143-146) or after the final
\* pass's updateFileMetadata (lines 165-167).
OrchHook ==
    /\ pc = "hook"
    /\ \E hookRet \in HookResults :
       \E r \in {hookResult(fs, zr[i], hookRet)} :
         /\ hookCalls' = hookCalls \cup Called(r, zr[i], hookRet)
         /\ IF IsDir(zr[i].Mode) THEN FixupAfter(r.err) ELSE After(r.err)
    /\ chownFailed' = chownFailed \cup {i}
    /\ m' = 0
    /\ UNCHANGED <<config, before, buffers, fs, path, group, ret, touched, acted, restored,
                   rejected>>

\* Line 170
FixupEnd ==
    /\ pc = "fixup"
    /\ i > Len(zr)
    /\ Return(Nil)
    /\ UNCHANGED <<config, before, buffers, m, fs, i, path, group, ret, touched, acted, restored,
                   rejected, first, chownFailed, hookCalls>>

\* A variant of Deferred: the group is waited for, its error is dropped.
DeferredKeepsResult ==
    /\ pc = "deferred"
    /\ Running = {}
    /\ ctxDone' = TRUE
    /\ ret' = err
    /\ pc' = "done"
    /\ UNCHANGED <<config, before, buffers, m, fs, i, path, err, limiter, tpc, terr, gerr, captured, history>>

\* A variant of Deferred: the group's error is taken only when Extract was
\* about to return nil.
DeferredFirstWins ==
    /\ pc = "deferred"
    /\ Running = {}
    /\ ctxDone' = TRUE
    /\ err' = (IF err # Nil THEN err ELSE gerr)
    /\ ret' = err'
    /\ pc' = "done"
    /\ UNCHANGED <<config, before, buffers, m, fs, i, path, limiter, tpc, terr, gerr, captured, history>>

\* A variant of Deferred: Extract returns without waiting for the group.
DeferredNoWait ==
    /\ pc = "deferred"
    /\ ctxDone' = TRUE
    /\ err' = (IF gerr # Nil THEN gerr ELSE err)
    /\ ret' = err'
    /\ pc' = "done"
    /\ UNCHANGED <<config, before, buffers, m, fs, i, path, limiter, tpc, terr, gerr, captured, history>>

\* Lines 92-96: the deferred function waits for the group; the group's error,
\* if any, replaces the result.
Deferred ==
    /\ pc = "deferred"
    /\ Running = {}
    /\ ctxDone' = TRUE
    /\ err' = (IF gerr # Nil THEN gerr ELSE err)
    /\ ret' = err'
    /\ pc' = "done"
    /\ UNCHANGED <<config, before, buffers, m, fs, i, path, limiter, tpc, terr, gerr, captured, history>>

Next ==
    \/ Skip
    \/ Reject
    \/ Parents
    \/ DispatchDir
    \/ DispatchSymlink
    \/ DispatchFile
    \/ \E k \in Entries : TaskCreate(k)
    \/ \E k \in Entries : TaskWrite(k)
    \/ \E k \in Entries : TaskMeta(k)
    \/ \E k \in Entries : TaskLock(k)
    \/ \E k \in Entries : TaskHook(k)
    \/ \E k \in Entries : TaskRelease(k)
    \/ \E k \in Entries : TaskReport(k)
    \/ Wait
    \/ FixupSkip
    \/ FixupDir
    \/ OrchLock
    \/ OrchHook
    \/ FixupEnd
    \/ Deferred

Spec == Init /\ [][Next]_vars

\* Extract is called again on the same Extractor after it returned nil: the
\* file system is as the first call left it.
Again ==
    /\ pc = "done"
    /\ ret = Nil
    /\ ~before.done
    /\ before' = [done |-> TRUE, fs |-> fs, chownFailed |-> chownFailed]
    /\ pc' = "loop"
    /\ i' = 1
    /\ path' = <<>>
    /\ err' = Nil
    /\ tpc' = [k \in Entries |-> "idle"]
    /\ terr' = [k \in Entries |-> Nil]
    /\ gerr' = Nil
    /\ captured' = 0
    /\ ctxDone' = FALSE
    /\ ret' = Pending
    /\ dirty' = {}
    /\ written' = {}
    /\ touched' = {}
    /\ acted' = {}
    /\ restored' = {}
    /\ rejected' = 0
    /\ own' = Pending
    /\ first' = Nil
    /\ chownFailed' = {}
    /\ hookCalls' = {}
    /\ UNCHANGED <<config, fs, limiter, pool, bw, m>>

NextAgain == Next \/ Again

\* Extract, and a second Extract of the same archive after a successful one.
SpecAgain == Init /\ [][NextAgain]_vars

\* A step of Extract or of one of its goroutines is possible.  The places
\* where the code can wait are the send on the limiter (line 131), wg.Wait
\* (lines 93 and 148) and e.m.Lock() (line 254); everything else runs on.
CanStep ==
    \/ pc = "loop" /\ (i \in Entries \/ Running = {})
    \/ pc = "dispatch" /\ (\/ IsDir(zr[i].Mode)
                           \/ "symlink" \in zr[i].Mode
                           \/ limiter < concurrency)
    \/ pc = "lock" /\ m = 0
    \/ pc \in {"hook", "fixup"}
    \/ pc = "deferred" /\ Running = {}
    \/ \E k \in Entries : tpc[k] \in {"create", "write", "meta", "hook", "release", "report"}
    \/ \E k \in Entries : tpc[k] = "lock" /\ m = 0

\* The scheduler does not stop while a step is possible: weak fairness of
\* Next, with CanStep for the enabledness of Next.
Fair == []<>(~CanStep) \/ []<><<Next>>_vars

\* Extract under a fair scheduler.
SpecFair == Spec /\ Fair

\* ------------------------------------------------------------- properties
Regular(k) == zr[k].Mode \cap irregularModes = {}

\* The resolved path is the root or below it, compared component by component.
InsideRoot(p) == HasPrefix(Comps(p), Comps(chroot))

\* The location is the root or below it.
Under(loc) == HasPrefix(loc, Comps(chroot))

\* The goroutines that were started and whose closure has not yet finished
\* (it finishes with the deferred receive from the limiter).
InFlight ==
    {k \in Entries : tpc[k] \in {"create", "write", "meta", "lock", "hook", "release"}}

IsFile(k) == Regular(k) /\ ~IsDir(zr[k].Mode) /\ "symlink" \notin zr[k].Mode

\* C1: an entry that Extract went on with (its parent directories were made)
\* resolves to the root or to a descendant of the root, and an entry it
\* rejected does not: the decision is the boundary-aware comparison.
C1_PathGuardDecision ==
    \A k \in Entries :
        /\ k \in acted => InsideRoot(Resolve(zr[k]))
        /\ rejected = k => ~InsideRoot(Resolve(zr[k]))

\* C2: every location Extract creates, removes or writes is the root or lies
\* below it, symbolic links created earlier followed.  Stated for the archives
\* whose names all resolve inside the root, where only a link can lead out.
C2_NoWriteOutsideRoot ==
    (\A k \in Entries : InsideRoot(Resolve(zr[k]))) => \A loc \in touched : Under(loc)

\* C3: once the path check rejected an entry, no file-system call and no task
\* exist for that entry, no later entry was processed, the loop stays at the
\* entry, the final pass never restored a directory, and Extract does not
\* return nil.
C3_RejectAborts ==
    rejected # 0 =>
        /\ rejected \notin acted
        /\ tpc[rejected] = "idle"
        /\ \A k \in Entries : k > rejected => (k \notin acted /\ tpc[k] = "idle")
        /\ i = rejected
        /\ pc \in {"deferred", "done"}
        /\ restored = {}
        /\ ret # Nil

\* C3's case: an entry was rejected after a file task had been started and
\* with entries behind it, and Extract has returned.
C3_Witness ==
    /\ pc = "done"
    /\ rejected # 0
    /\ rejected < Len(zr)
    /\ \E k \in Entries : k < rejected /\ tpc[k] = "done"
    /\ Regular(Len(zr))

\* C4: at most concurrency file tasks are in flight, and the limiter holds
\* exactly one element per task in flight: the slot is taken before the task
\* starts and given back once, when its closure finishes, with or without error.
C4_ConcurrencyBound ==
    /\ Cardinality(InFlight) <= concurrency
    /\ limiter = Cardinality(InFlight)

\* C4's case: every slot is taken and the orchestrator waits for one with
\* the next file entry, one of the tasks in flight having failed.
C4_Witness ==
    /\ pc = "dispatch"
    /\ IsFile(i)
    /\ Cardinality(InFlight) = concurrency
    /\ \E k \in InFlight : terr[k] # Nil

\* C5: when a file task failed, Extract returns the error the group captured
\* first, never nil, whatever the orchestrator itself was about to return.
C5_FailurePropagation ==
    (pc = "done" /\ \E k \in Entries : terr[k] # Nil) =>
        /\ ret # Nil
        /\ ret = gerr
        /\ captured # 0
        /\ gerr = terr[captured]

\* C5's case: the orchestrator left the loop on the cancelled context, and
\* two tasks failed.
C5_Witness ==
    /\ pc = "done"
    /\ own.kind = "canceled"
    /\ ret = gerr
    /\ \E k \in Entries : terr[k] # Nil /\ terr[k] # gerr

C7_ChownFatalWithoutHook ==
    (pc = "done" /\ ~handlerSet /\ chownFailed # {}) => ret # Nil

\* C8: with ChownErrorHandler set, every failed lchown is passed to it with
\* the entry's name; nil from the handler makes updateFileMetadata return nil,
\* an error from it is what updateFileMetadata returns; an Extract in which a
\* handler call returned an error returns an error, and one in which nothing
\* failed but lchown (answered by nil) returns nil.
C8_ChownHook ==
    handlerSet =>
        /\ \A k \in chownFailed :
               \E c \in hookCalls : c.name = zr[k].Name /\ c.err = "EPERM"
        /\ \A c \in hookCalls :
               /\ \E k \in chownFailed : c.name = zr[k].Name
               /\ c.res = (IF c.ret = "nil" THEN Nil ELSE Err(c.ret, c.name))
               /\ c.ret # "nil" => first # Nil
        /\ pc = "done" => (ret = Nil <=> first = Nil)

\* C8's case: lchown failed for a file task, a symbolic link and a directory,
\* the handler returned nil each time, and Extract returned nil.
C8_Witness ==
    /\ pc = "done"
    /\ handlerSet
    /\ \E k \in chownFailed : IsFile(k)
    /\ \E k \in chownFailed : IsDir(zr[k].Mode)
    /\ \A c \in hookCalls : c.ret = "nil"
    /\ ret = Nil

\* The node a directory entry names.
DirNode(k) == LReal(fs, Comps(Resolve(zr[k])))

\* C9: after Extract returned nil, every directory entry's directory has the
\* entry's modification time.
C9_DirModTime ==
    (pc = "done" /\ ret = Nil) =>
        \A k \in Entries :
            IsDir(zr[k].Mode) =>
                /\ DirNode(k) \in DOMAIN fs
                /\ fs[DirNode(k)].kind = "dir"
                /\ fs[DirNode(k)].mtime = zr[k].ModTime

\* C9's case: a directory entry, then a file and a directory created in it,
\* and Extract returned nil.
C9_Witness ==
    /\ pc = "done"
    /\ ret = Nil
    /\ \E k, f, d \in Entries :
           /\ k < f
           /\ k < d
           /\ IsDir(zr[k].Mode)
           /\ IsFile(f)
           /\ IsDir(zr[d].Mode)
           /\ Dir(Resolve(zr[f])) = Comps(Resolve(zr[k]))
           /\ Dir(Resolve(zr[d])) = Comps(Resolve(zr[k]))
           /\ tpc[f] = "done"

\* C10: once the group has captured a failure, no file task is started.
C10_NoStartAfterCapture ==
    [][gerr # Nil => \A k \in Entries : tpc[k] = "idle" => tpc'[k] = "idle"]_vars

\* C11: a second Extract of the same archive, into the root as a first
\* successful Extract left it and with nothing failing but what the first
\* Extract left behind (no read error, the same outcomes of lchown, no error
\* from the handler), returns nil and leaves the file system as it was.
C11_ReextractIdempotent ==
    (/\ before.done
     /\ pc = "done"
     /\ first.kind \notin {"EIO", "hook"}
     /\ chownFailed = before.chownFailed) =>
        /\ ret = Nil
        /\ fs = before.fs

\* The entries come from nodes of the tree, each through the Archiver.
FromTree == \A k \in Entries : \E n \in DOMAIN Tree : zr[k] = Packed(n)

\* The node of the tree entry k was made from.
Source(k) == Tree[CHOOSE n \in DOMAIN Tree : zr[k] = Packed(n)]

\* The content a node of the given kind has for the archived content.
Content(kind, data) == IF kind = "symlink" THEN Comps(data) ELSE data

\* The node entry k names has the kind, permission bits, modification time
\* and content (symbolic link: target) of the node n of the tree.
SameNode(k, n) ==
    /\ DirNode(k) \in DOMAIN fs
    /\ fs[DirNode(k)].kind = n.kind
    /\ fs[DirNode(k)].perm = n.perm
    /\ fs[DirNode(k)].mtime = n.mtime
    /\ fs[DirNode(k)].data = Content(n.kind, n.data)

AllMaterialized ==
    /\ rejected = 0
    /\ gerr = Nil
    /\ \A k \in Entries :
           /\ Regular(k) => k \in acted
           /\ IsFile(k) => (tpc[k] = "done" /\ terr[k] = Nil)
           /\ ~IsFile(k) => tpc[k] = "idle"

\* C13 as claimed: a directory entry's metadata is restored only after every
\* entry was processed and every file task completed, all with success; and
\* after an Extract that returned an error no directory entry was restored.
C13_NoRestoreWhenFailed ==
    /\ restored # {} => AllMaterialized
    /\ (pc = "done" /\ ret # Nil) => restored = {}

\* C13 as amended: the same ordering; after an Extract that returned an error
\* directory entries were restored only if the error is that of the final
\* pass itself: the restore of the last directory entry it came to failed,
\* and the directory entries before that one stay restored.
C13_RestoreAfterAll ==
    /\ restored # {} => AllMaterialized
    /\ (pc = "done" /\ ret # Nil /\ restored # {}) =>
           /\ ret = own
           /\ ret = first
           /\ i \in restored
           /\ ret.name = zr[i].Name
           /\ restored = {k \in 1..i : IsDir(zr[k].Mode)}

\* C13's case: file tasks ran, the final pass restored one directory entry
\* and failed at the next, and Extract returned that error.
C13_Witness ==
    /\ pc = "done"
    /\ ret # Nil
    /\ Cardinality(restored) > 1
    /\ \E k \in Entries : tpc[k] = "done"

\* C14: before the final pass restores anything, no directory carries
\* metadata of the archive: each has the permission bits, modification time
\* and owner it gets when created with the permissive mode of os.MkdirAll;
\* and no entry fails because a directory entry's mode refuses it.
C14_DirMetadataDeferred ==
    restored = {} =>
        /\ \A loc \in DOMAIN fs :
               fs[loc].kind = "dir" =>
                   /\ fs[loc].perm = FullPerm
                   /\ fs[loc].mtime = Now
                   /\ fs[loc].owner = Self
        /\ first.kind # "EACCES"

\* C16: an entry with an irregular type bit is passed over by all of Extract:
\* no path check and no file-system call is made for it, no task is started
\* for it, its metadata is never restored and no error carries its name.
C16_IrregularSkipped ==
    \A k \in Entries :
        ~Regular(k) =>
            /\ k \notin acted
            /\ rejected # k
            /\ tpc[k] = "idle"
            /\ k \notin restored
            /\ first.name # zr[k].Name

\* C17: the file of every createFile that returned nil holds exactly the
\* decoded content of its entry, and its writer was flushed: no byte stayed
\* in it.
C17_PoolIsolation ==
    \A w \in written :
        /\ w.at # {}
        /\ \A loc \in w.at :
              /\ loc \in DOMAIN fs
              /\ fs[loc].kind = "file"
              /\ fs[loc].data = zr[w.entry].Body
        /\ w.left = <<>>

\* C17's case: a createFile returned nil with a writer that came from the
\* pool with bytes or an error left by a failed createFile, while another
\* createFile holds a writer.
C17_Witness ==
    \E w \in written :
        /\ w.entry \in dirty
        /\ \E k \in Entries : k # w.entry /\ tpc[k] = "write"

\* The entries whose updateFileMetadata is in ChownErrorHandler.
InHook == {k \in Entries : tpc[k] = "hook" \/ (pc = "hook" /\ i = k)}

\* The entries whose updateFileMetadata waits for e.m.
AtLock == {k \in Entries : tpc[k] = "lock" \/ (pc = "lock" /\ i = k)}

\* C19: at most one call of ChownErrorHandler is running; e.m is held exactly
\* by the call that is running, so whoever waits for e.m waits for a handler
\* that is running, and e.m is free when Extract has returned.
C19_HookMutex ==
    /\ Cardinality(InHook) <= 1
    /\ InHook = (IF m = 0 THEN {} ELSE {m})
    /\ pc = "done" => (m = 0 /\ AtLock = {})

\* C19's case: a goroutine is in the handler while another goroutine waits
\* for e.m, after the orchestrator's own call of the handler for a link.
C19_Witness ==
    /\ \E k \in Entries : tpc[k] = "hook"
    /\ \E k \in Entries : tpc[k] = "lock"
    /\ \E c \in hookCalls, k \in Entries : c.name = zr[k].Name /\ "symlink" \in zr[k].Mode

\* C15: under a fair scheduler Extract returns, and until it has returned a
\* step is always possible: whenever the orchestrator waits for a slot, for
\* the goroutines or for e.m, a goroutine is able to run, also after
\* goroutines failed.
C15_Terminates ==
    /\ [](pc # "done" => CanStep)
    /\ <>(pc = "done")

\* C15's case: the orchestrator waits for a slot of the limiter, and the
\* goroutine that holds one has failed and has not given it back yet.
C15_Witness ==
    /\ pc = "dispatch"
    /\ IsFile(i)
    /\ limiter = concurrency
    /\ \E k \in Entries : tpc[k] = "release" /\ terr[k] # Nil

\* C18: when Extract has returned, with nil or with any error, every
\* goroutine it started has finished: none is in createFile or in
\* updateFileMetadata, each one that returned nil wrote its file to the end,
\* every writer is back in the pool and every slot of the limiter is free.
C18_QuiescentOnReturn ==
    pc = "done" =>
        /\ \A k \in Entries :
              /\ tpc[k] \in {"idle", "done"}
              /\ bw[k] = NoWriter
              /\ (tpc[k] = "done" /\ terr[k] = Nil) => \E w \in written : w.entry = k
        /\ InFlight = {}
        /\ limiter = 0

\* C18's case: Extract has returned because of an entry that leaves the root,
\* after it had started a goroutine, which wrote its file.
C18_Witness ==
    /\ pc = "done"
    /\ own.kind = "escape"
    /\ \E k \in Entries : tpc[k] = "done" /\ terr[k] = Nil

====
